---- MODULE Spec2Model ----
(***************************************************************************)
(* The indexing pipeline of nas-search: the file monitor                   *)
(* (services/file-monitor/monitor.py) turns filesystem notifications and   *)
(* scans into messages on file_processing_queue, and the metadata          *)
(* extractor (services/metadata-extractor/extractor.py) pops them and      *)
(* writes or deletes documents in the Solr index.  Both sides coordinate   *)
(* through Redis keys.                                                     *)
(*                                                                         *)
(* Paths are sequences of segments; str(path) is the sequence itself, so   *)
(* two Redis keys are equal exactly when the path strings are equal.       *)
(* Time is abstract: a TTL expiry is an action that may happen at any      *)
(* moment after the key was set.  The monitor's clock stands still unless  *)
(* a specification lets it tick; where it ticks, threading.Timer callbacks *)
(* run when they are due.                                                  *)
(***************************************************************************)
EXTENDS Integers, Sequences, FiniteSets, TLC

\* ------------------------------------------------------------------ bounds
MaxClock == 3      \* number of filesystem changes in a behaviour
MaxContent == 2    \* distinct file contents
MaxQueue == 2      \* messages in file_processing_queue
MaxTimers == 2     \* outstanding threading.Timer objects per path
NumWorkers == 2    \* extractor processes consuming the queue
MaxTime == 8       \* seconds of the monitor's clock that are followed
MaxThumbnailQueue == 2  \* messages in thumbnail_generation_queue

\* ----------------------------------------------------------- configuration
\* MOUNT_PATHS = "/m/photos,/docs": one volume mounted below another
\* directory and one mounted at the root of the container.
MOUNT_PATHS == << <<"m", "photos">>, <<"docs">> >>

FileA == <<"m", "photos", "a.jpg">>
FileB == <<"docs", "b.jpg">>
Files == {FileA, FileB}

\* a file whose extension is not in SUPPORTED_EXTENSIONS, next to FileB
FileC == <<"docs", "c.tmp">>

\* a supported file that is neither an image nor a video, next to FileB
FileD == <<"docs", "d.txt">>

\* an image in a directory of the volume mounted at /m/photos
FileE == <<"m", "photos", "a", "b.jpg">>

\* every path of the volumes: the two images, the unsupported file, the
\* text file and the image in a directory
Paths == Files \cup {FileC, FileD, FileE}

SUPPORTED_EXTENSIONS ==
    {".jpg", ".jpeg", ".png", ".gif", ".bmp", ".tiff", ".tif", ".webp", ".raw",
     ".cr2", ".nef", ".arw",
     ".mp4", ".avi", ".mkv", ".mov", ".wmv", ".flv", ".webm", ".m4v", ".mpg",
     ".mpeg",
     ".mp3", ".wav", ".flac", ".aac", ".ogg", ".wma", ".m4a",
     ".pdf", ".doc", ".docx", ".txt", ".rtf", ".odt", ".pages",
     ".zip", ".rar", ".7z", ".tar", ".gz"}

NoFile == [content |-> 0, mtime |-> -1]
NoPath == << >>
NoMsg == [event_type |-> "none"]
Contents == 1..MaxContent
Workers == 1..NumWorkers

VARIABLES
    fs,               \* the filesystem: container path -> [content, mtime]
    now,              \* wall clock, advanced by filesystem changes
    pending_events,   \* NASFileHandler.pending_events: path -> event type
    timers,           \* started threading.Timer objects per path
    processed_files,  \* NASFileHandler.processed_files (in memory)
    in_stage4,        \* timer threads between the GET and the SET of file_hash
    timestamp,        \* pending_events[path]['timestamp'], in seconds
    due,              \* the times at which the started timers of a path fire
    monitor,          \* the file monitor process: running, stopping, exited
    clock,            \* time.time() of the file monitor, in seconds
    thumbnail_files,  \* the files below THUMBNAIL_DIR: path -> size -> image
    thumbnails,       \* Redis hashes thumbnails:<k>
    thumbnail_generation_queue, \* Redis list, head = left end
    global_processing,\* Redis keys global_processing:<k>
    queue_lock,       \* Redis keys queue_lock:<k>
    queued_files,     \* Redis set queued_files
    processed_set,    \* Redis set processed_files
    processed,        \* Redis keys processed:<k> -> age class of the value
    file_hash,        \* Redis keys file_hash:<h> -> path
    queue,            \* Redis list file_processing_queue, head = left end
    index,            \* the Solr core: a set of documents
    pc,               \* extractor worker -> position in process_queue
    msg               \* extractor worker -> message being processed

vars == <<fs, now, pending_events, timers, processed_files, in_stage4,
          timestamp, due, monitor, clock, thumbnail_files, thumbnails,
          thumbnail_generation_queue,
          global_processing, queue_lock, queued_files, processed_set,
          processed, file_hash, queue, index, pc, msg>>

watcherVars == <<pending_events, timers, processed_files, in_stage4,
                 timestamp, due>>
\* what only the shutdown of the monitor, the passing of time and the
\* thumbnail generator change
otherVars == <<monitor, clock, thumbnail_files, thumbnails,
               thumbnail_generation_queue>>
redisVars == <<global_processing, queue_lock, queued_files, processed_set,
               processed, file_hash, queue>>
workerVars == <<pc, msg>>

\* ------------------------------------------------------------ path helpers
IsPrefix(s, t) == Len(s) <= Len(t) /\ SubSeq(t, 1, Len(s)) = s

\* NASFileHandler._parse_mount_paths: volume name = last segment
VolumeName(mount) == mount[Len(mount)]

\* Path.relative_to(mount_point)
RelativeTo(p, mount) == SubSeq(p, Len(mount) + 1, Len(p))

\* NASFileHandler._get_standardized_path: "/<volume>/<relative path>" for
\* the first mount point the path lies under, else the path itself
_get_standardized_path(p) ==
    LET hits == {i \in 1..Len(MOUNT_PATHS) : IsPrefix(MOUNT_PATHS[i], p)}
    IN  IF hits = {} THEN p
        ELSE LET i == CHOOSE j \in hits : \A k \in hits : j <= k
             IN  <<VolumeName(MOUNT_PATHS[i])>> \o RelativeTo(p, MOUNT_PATHS[i])

\* Path.suffix.lower()
Suffix(p) ==
    LET name == p[Len(p)]
    IN  CASE name = "a.jpg" -> ".jpg"
          [] name = "b.jpg" -> ".jpg"
          [] name = "c.tmp" -> ".tmp"
          [] name = "d.txt" -> ".txt"
          [] OTHER -> ""

\* a handler that takes every extension for supported
_is_supported_file_Any(p) == Suffix(p) \in SUPPORTED_EXTENSIONS \cup {".tmp"}

\* NASFileHandler._is_supported_file
_is_supported_file(p) == Suffix(p) \in SUPPORTED_EXTENSIONS

Exists(p) == fs[p].content # 0

\* hashlib.sha256 of the file contents / of a path string
Sha256(x) == <<"sha256", x>>
_get_file_hash(p) == Sha256(fs[p].content)

\* stat.st_size of a file with the given contents; content 1 is the empty file
SizeOf(c) == c \div 2

LogicalPaths == {_get_standardized_path(f) : f \in Paths}
Hashes == {Sha256(c) : c \in Contents}

AllKeys == Paths \cup LogicalPaths
NoHash == << >>
NoDate == -1
CreatedOrModified == {"created", "modified"}

\* NASFileHandler.debounce_delay, in seconds
debounce_delay == 5

\* no pending event, hence no timestamp
NoTime == -1

\* THUMBNAIL_SIZES, by name
THUMBNAIL_SIZES == {"small", "medium", "large"}

\* no thumbnail file at a path / no hash at a key
NoImage == 0
NoThumbnails == [fields |-> {}, ttl |-> -1]

\* no timer thread of the path is inside stage 4 of the enqueue discipline
NotQueuing == [event_type |-> "none", content_hash |-> NoHash]

TypeOK ==
    /\ fs \in [Paths -> [content : 0..MaxContent, mtime : -1..MaxClock]]
    /\ now \in 0..MaxClock
    /\ pending_events \in [Paths -> {"none", "created", "modified", "deleted"}]
    /\ timers \in [Paths -> 0..MaxTimers]
    /\ processed_files \subseteq AllKeys
    /\ in_stage4 \in [Paths -> [event_type : {"none", "created", "modified"},
                                 content_hash : Hashes \cup {NoHash}]]
    /\ timestamp \in [Paths -> NoTime..MaxTime]
    /\ \A p \in Paths : Len(due[p]) = timers[p]
    /\ monitor \in {"running", "stopping", "exited"}
    /\ clock \in 0..MaxTime
    /\ thumbnail_files \in [AllKeys -> [THUMBNAIL_SIZES -> 0..MaxContent]]
    /\ \A k \in AllKeys : thumbnails[k].fields \subseteq THUMBNAIL_SIZES
    /\ Len(thumbnail_generation_queue) <= MaxThumbnailQueue
    /\ global_processing \subseteq AllKeys
    /\ queue_lock \subseteq AllKeys
    /\ queued_files \subseteq AllKeys
    /\ processed_set \subseteq AllKeys
    /\ processed \in [AllKeys -> {"none", "recent"}]
    /\ file_hash \in [Hashes -> Paths \cup {NoPath}]
    /\ Len(queue) <= MaxQueue
    /\ pc \in [Workers -> {"idle", "popped", "extracted", "exited"}]

\* The services start on empty volumes, an empty Redis and an empty index
Init ==
    /\ fs = [f \in Paths |-> NoFile]
    /\ now = 0
    /\ pending_events = [f \in Paths |-> "none"]
    /\ timers = [f \in Paths |-> 0]
    /\ processed_files = {}
    /\ in_stage4 = [f \in Paths |-> NotQueuing]
    /\ timestamp = [f \in Paths |-> NoTime]
    /\ due = [f \in Paths |-> << >>]
    /\ monitor = "running"
    /\ clock = 0
    /\ thumbnail_files = [k \in AllKeys |-> [z \in THUMBNAIL_SIZES |-> NoImage]]
    /\ thumbnails = [k \in AllKeys |-> NoThumbnails]
    /\ thumbnail_generation_queue = << >>
    /\ global_processing = {}
    /\ queue_lock = {}
    /\ queued_files = {}
    /\ processed_set = {}
    /\ processed = [k \in AllKeys |-> "none"]
    /\ file_hash = [h \in Hashes |-> NoPath]
    /\ queue = << >>
    /\ index = {}
    /\ pc = [w \in Workers |-> "idle"]
    /\ msg = [w \in Workers |-> NoMsg]

\* Path(s).parts of an absolute path string: the root "/" and the segments
PathParts(p) == <<"/">> \o p

\* ------------------------------------------------------------- the watcher
\* NASFileHandler._create_file_message: stat() of a missing file raises and
\* the handler returns {} (NoMsg), whatever the event type
_create_file_message(p, et) ==
    IF ~Exists(p) THEN NoMsg
    ELSE [event_type |-> et,
          file_path |-> _get_standardized_path(p),
          container_path |-> p,
          file_size |-> IF et # "deleted" THEN SizeOf(fs[p].content) ELSE 0,
          content_hash |-> IF et # "deleted" THEN _get_file_hash(p) ELSE NoHash,
          modified_date |-> IF et # "deleted" THEN fs[p].mtime ELSE NoDate,
          directory_depth |-> Len(PathParts(_get_standardized_path(p))) - 2]

\* The stage at which _queue_file_for_processing returns.  Every key is
\* built from str(file_path), the container path.
EnqueueOutcome(p, et) ==
    IF p \in global_processing THEN "locked"
    ELSE IF p \in queued_files THEN "queued"
    ELSE IF et \in CreatedOrModified /\ processed[p] = "recent" THEN "recent"
    ELSE IF /\ et \in CreatedOrModified
            /\ Exists(p)
            /\ file_hash[_get_file_hash(p)] \notin {NoPath, p} THEN "duplicate"
    ELSE IF p \in queue_lock THEN "queuing"
    ELSE IF _create_file_message(p, et) = NoMsg THEN "nomessage"
    ELSE "pushed"

\* _queue_file_for_processing of a watcher that releases the global lock
\* itself once the message is pushed
_queue_file_for_processing_ReleasesLock(p, et) ==
    LET out == EnqueueOutcome(p, et)
        hashed == /\ out \in {"queuing", "nomessage", "pushed"}
                  /\ et \in CreatedOrModified
                  /\ Exists(p)
    IN  /\ global_processing' = IF out = "pushed"
                                THEN global_processing \ {p}
                                ELSE global_processing \cup {p}
        /\ file_hash' = IF hashed
                        THEN [file_hash EXCEPT ![_get_file_hash(p)] = p]
                        ELSE file_hash
        /\ queue_lock' = IF out \in {"nomessage", "pushed"}
                         THEN (queue_lock \cup {p}) \ {p}
                         ELSE queue_lock
        /\ queue' = IF out = "pushed"
                    THEN <<_create_file_message(p, et)>> \o queue
                    ELSE queue
        /\ queued_files' = IF out = "pushed" /\ et # "deleted"
                           THEN queued_files \cup {p}
                           ELSE queued_files

\* NASFileHandler._queue_file_for_processing.  The global lock is kept on
\* every return after its acquisition; the queue lock is taken (SET NX) and
\* deleted again (finally) inside the call, and since a second call for the
\* same path returns at the global lock, no other call ever finds it held.
_queue_file_for_processing(p, et) ==
    LET out == EnqueueOutcome(p, et)
        hashed == /\ out \in {"queuing", "nomessage", "pushed"}
                  /\ et \in CreatedOrModified
                  /\ Exists(p)
    IN  /\ global_processing' = global_processing \cup {p}
        /\ file_hash' = IF hashed
                        THEN [file_hash EXCEPT ![_get_file_hash(p)] = p]
                        ELSE file_hash
        /\ queue_lock' = IF out \in {"nomessage", "pushed"}
                         THEN (queue_lock \cup {p}) \ {p}
                         ELSE queue_lock
        /\ queue' = IF out = "pushed"
                    THEN <<_create_file_message(p, et)>> \o queue
                    ELSE queue
        /\ queued_files' = IF out = "pushed" /\ et # "deleted"
                           THEN queued_files \cup {p}
                           ELSE queued_files

\* NASFileHandler._schedule_debounced_event, as a function of the handler's
\* state st = [pending, timers]
_schedule_debounced_event(st, p, et) ==
    [pending |-> [st.pending EXCEPT ![p] = et],
     timestamp |-> [st.timestamp EXCEPT ![p] = clock],
     timers |-> [st.timers EXCEPT ![p] = @ + 1],
     due |-> [st.due EXCEPT ![p] = Append(@, clock + debounce_delay)]]

HandlerState ==
    [pending |-> pending_events, timestamp |-> timestamp,
     timers |-> timers, due |-> due]

SetHandlerState(st) ==
    /\ pending_events' = st.pending
    /\ timestamp' = st.timestamp
    /\ timers' = st.timers
    /\ due' = st.due

\* NASFileHandler.on_created
on_created(p) ==
    /\ SetHandlerState(IF _is_supported_file(p)
                       THEN _schedule_debounced_event(HandlerState, p, "created")
                       ELSE HandlerState)
    /\ UNCHANGED <<processed_set, queued_files>>

\* NASFileHandler.on_modified, run after the change to the filesystem
on_modified(p) ==
    /\ SetHandlerState(IF _is_supported_file(p) /\ fs'[p].content # 0
                       THEN _schedule_debounced_event(HandlerState, p, "modified")
                       ELSE HandlerState)
    /\ UNCHANGED <<processed_set, queued_files>>

\* NASFileHandler.on_deleted
on_deleted(p) ==
    IF _is_supported_file(p)
    THEN /\ SetHandlerState(_schedule_debounced_event(HandlerState, p, "deleted"))
         /\ processed_set' = processed_set \ {p}
         /\ queued_files' = queued_files \ {p}
    ELSE /\ SetHandlerState(HandlerState)
         /\ UNCHANGED <<processed_set, queued_files>>

\* NASFileHandler.on_moved, run after the change to the filesystem
on_moved(old, new) ==
    LET st1 == IF _is_supported_file(old)
               THEN _schedule_debounced_event(HandlerState, old, "deleted")
               ELSE HandlerState
        st2 == IF _is_supported_file(new) /\ fs'[new].content # 0
               THEN _schedule_debounced_event(st1, new, "created")
               ELSE st1
    IN  /\ SetHandlerState(st2)
        /\ UNCHANGED <<processed_set, queued_files>>

\* A notification lost by the observer (event queue overflow): no handler runs
NotDelivered ==
    UNCHANGED <<pending_events, timestamp, timers, due, processed_set,
                queued_files>>

\* --------------------------------------------------- filesystem + dispatch
\* A file appears; watchdog calls on_created
FsCreate(p, c, notify) ==
    /\ ~Exists(p)
    /\ now < MaxClock
    /\ timers[p] < MaxTimers
    /\ now' = now + 1
    /\ fs' = [fs EXCEPT ![p] = [content |-> c, mtime |-> now + 1]]
    /\ IF notify THEN on_created(p) ELSE NotDelivered
    /\ UNCHANGED <<otherVars, processed_files, in_stage4, global_processing, queue_lock, processed,
                   file_hash, queue, index, workerVars>>

\* A file is rewritten in place; watchdog calls on_modified
FsModify(p, c, notify) ==
    /\ Exists(p)
    /\ now < MaxClock
    /\ timers[p] < MaxTimers
    /\ now' = now + 1
    /\ fs' = [fs EXCEPT ![p] = [content |-> c, mtime |-> now + 1]]
    /\ IF notify THEN on_modified(p) ELSE NotDelivered
    /\ UNCHANGED <<otherVars, processed_files, in_stage4, global_processing, queue_lock, processed,
                   file_hash, queue, index, workerVars>>

\* A file is removed; watchdog calls on_deleted
FsDelete(p, notify) ==
    /\ Exists(p)
    /\ now < MaxClock
    /\ timers[p] < MaxTimers
    /\ now' = now + 1
    /\ fs' = [fs EXCEPT ![p] = NoFile]
    /\ IF notify THEN on_deleted(p) ELSE NotDelivered
    /\ UNCHANGED <<otherVars, processed_files, in_stage4, global_processing, queue_lock, processed,
                   file_hash, queue, index, workerVars>>

\* A file is renamed; watchdog calls on_moved
FsMove(old, new, notify) ==
    /\ old # new
    /\ Exists(old)
    /\ ~Exists(new)
    /\ now < MaxClock
    /\ timers[old] < MaxTimers
    /\ timers[new] < MaxTimers
    /\ now' = now + 1
    /\ fs' = [fs EXCEPT ![old] = NoFile, ![new] = fs[old]]
    /\ IF notify THEN on_moved(old, new) ELSE NotDelivered
    /\ UNCHANGED <<otherVars, processed_files, in_stage4, global_processing, queue_lock, processed,
                   file_hash, queue, index, workerVars>>

\* _process_debounced_event: the pending event is older than twice the
\* debounce delay
TooOld(p) ==
    /\ timestamp[p] # NoTime
    /\ clock - timestamp[p] > debounce_delay * 2

\* _process_debounced_event that reads the pending event without popping it
_process_debounced_event_KeepPending(p) ==
    /\ timers[p] > 0
    /\ Len(queue) < MaxQueue
    /\ timers' = [timers EXCEPT ![p] = @ - 1]
    /\ due' = [due EXCEPT ![p] = Tail(@)]
    /\ pending_events' = pending_events
    /\ timestamp' = timestamp
    /\ IF \/ pending_events[p] = "none"
          \/ pending_events[p] \in CreatedOrModified /\ ~Exists(p)
          \/ TooOld(p)
       THEN UNCHANGED redisVars
       ELSE /\ _queue_file_for_processing(p, pending_events[p])
            /\ UNCHANGED <<processed_set, processed>>
    /\ UNCHANGED <<otherVars, fs, now, processed_files, in_stage4, index,
                   workerVars>>

\* NASFileHandler._process_debounced_event: a timer started by
\* _schedule_debounced_event fires
_process_debounced_event(p) ==
    /\ timers[p] > 0
    /\ Len(queue) < MaxQueue
    /\ timers' = [timers EXCEPT ![p] = @ - 1]
    /\ due' = [due EXCEPT ![p] = Tail(@)]
    /\ pending_events' = [pending_events EXCEPT ![p] = "none"]
    /\ timestamp' = [timestamp EXCEPT ![p] = NoTime]
    /\ IF \/ pending_events[p] = "none"
          \/ pending_events[p] \in CreatedOrModified /\ ~Exists(p)
          \/ TooOld(p)
       THEN UNCHANGED redisVars
       ELSE /\ _queue_file_for_processing(p, pending_events[p])
            /\ UNCHANGED <<processed_set, processed>>
    /\ UNCHANGED <<otherVars, fs, now, processed_files, in_stage4, index,
                   workerVars>>

\* Timers are threads (threading.Timer), and nothing but the per-path global
\* lock serialises two of them inside _queue_file_for_processing.  Stage 4
\* reads file_hash:<h> and writes it in two Redis calls, so the call of one
\* path may be suspended between them while the call of another path runs.
\* Stage4Get is a timer's call for a created or modified event up to and
\* including that GET, when it passes all four checks.
Stage4Get(p) ==
    /\ timers[p] > 0
    /\ pending_events[p] \in CreatedOrModified
    /\ Exists(p)
    /\ in_stage4[p] = NotQueuing
    /\ ~TooOld(p)
    /\ EnqueueOutcome(p, pending_events[p]) \in {"queuing", "nomessage", "pushed"}
    /\ timers' = [timers EXCEPT ![p] = @ - 1]
    /\ due' = [due EXCEPT ![p] = Tail(@)]
    /\ pending_events' = [pending_events EXCEPT ![p] = "none"]
    /\ timestamp' = [timestamp EXCEPT ![p] = NoTime]
    /\ global_processing' = global_processing \cup {p}
    /\ in_stage4' = [in_stage4 EXCEPT ![p] =
                        [event_type |-> pending_events[p],
                         content_hash |-> _get_file_hash(p)]]
    /\ UNCHANGED <<otherVars, fs, now, processed_files, queue_lock, queued_files,
                   processed_set, processed, file_hash, queue, index,
                   workerVars>>

\* The rest of that call: the SET of file_hash:<h>, the queue lock, the
\* message and the push
Stage4SetAndPush(p) ==
    LET m == _create_file_message(p, in_stage4[p].event_type)
    IN  /\ in_stage4[p] # NotQueuing
        /\ Len(queue) < MaxQueue
        /\ in_stage4' = [in_stage4 EXCEPT ![p] = NotQueuing]
        /\ file_hash' = [file_hash EXCEPT ![in_stage4[p].content_hash] = p]
        /\ queue' = IF m = NoMsg THEN queue ELSE <<m>> \o queue
        /\ queued_files' = IF m = NoMsg THEN queued_files
                           ELSE queued_files \cup {p}
        /\ UNCHANGED <<otherVars, fs, now, pending_events, timestamp, timers,
                       due, processed_files,
                       global_processing, queue_lock, processed_set,
                       processed, index, workerVars>>

\* FileMonitorService.scan_existing_files: the body of the rglob loop for
\* one file, during the startup scan or a periodic rescan
scan_existing_files(p) ==
    /\ Exists(p)
    /\ _is_supported_file(p)
    /\ _get_standardized_path(p) \notin processed_files
    /\ Len(queue) < MaxQueue
    /\ _queue_file_for_processing(p, "created")
    /\ UNCHANGED <<otherVars, fs, now, watcherVars, processed_set, processed,
                   index, workerVars>>

\* ----------------------------------------------------------- the extractor
\* process_queue that takes the left end of the list, where LPUSH put the
\* newest message
process_queue_Lpop(w) ==
    /\ pc[w] = "idle"
    /\ queue # << >>
    /\ msg' = [msg EXCEPT ![w] = queue[1]]
    /\ queue' = Tail(queue)
    /\ pc' = [pc EXCEPT ![w] = "popped"]
    /\ UNCHANGED <<otherVars, fs, now, watcherVars, global_processing, queue_lock,
                   queued_files, processed_set, processed, file_hash, index>>

\* MetadataExtractorService.process_queue: BRPOP takes the right end
process_queue(w) ==
    /\ pc[w] = "idle"
    /\ queue # << >>
    /\ msg' = [msg EXCEPT ![w] = queue[Len(queue)]]
    /\ queue' = SubSeq(queue, 1, Len(queue) - 1)
    /\ pc' = [pc EXCEPT ![w] = "popped"]
    /\ UNCHANGED <<otherVars, fs, now, watcherVars, global_processing, queue_lock,
                   queued_files, processed_set, processed, file_hash, index>>

\* MetadataExtractorService.delete_from_solr: delete by query on file_path;
\* ok is Solr's answer (status 200 or not)
delete_from_solr(path, ok) ==
    IF ok THEN {d \in index : d.file_path # path} ELSE index

\* process_file with an id drawn per message instead of computed from the path
Document_IdPerMessage(m) ==
    [id |-> Sha256(<<m.file_path, m.modified_date>>),
     file_path |-> m.file_path,
     content_hash |-> m.content_hash,
     file_size |-> m.file_size,
     modified_date |-> m.modified_date]

\* The document process_file assembles from the message
Document(m) ==
    [id |-> Sha256(m.file_path),
     file_path |-> m.file_path,
     content_hash |-> m.content_hash,
     file_size |-> m.file_size,
     modified_date |-> m.modified_date]

\* MetadataExtractorService.check_if_update_needed; qok is the status of
\* the select query
check_if_update_needed(document, qok) ==
    LET docs == {d \in index : d.file_path = document.file_path}
    IN  IF ~qok THEN TRUE
        ELSE IF Cardinality(docs) = 0 THEN TRUE
        ELSE IF Cardinality(docs) > 1 THEN TRUE
        ELSE LET existing_doc == CHOOSE d \in docs : TRUE
             IN  IF /\ document.content_hash # NoHash
                    /\ existing_doc.content_hash = document.content_hash
                    /\ document.file_size # 0
                    /\ existing_doc.file_size = document.file_size
                 THEN FALSE
                 ELSE IF /\ document.modified_date # NoDate
                         /\ existing_doc.modified_date # NoDate
                         /\ document.modified_date <= existing_doc.modified_date
                         /\ document.file_size # 0
                         /\ existing_doc.file_size = document.file_size
                 THEN FALSE
                 ELSE TRUE

\* The POST /update of index_in_solr: the document replaces the one with
\* the same id
Upsert(document) == {d \in index : d.id # document.id} \cup {document}

\* process_file without its check that the container file exists
ProcessFileStart_NoExistsCheck(w, ok) ==
    /\ pc[w] = "popped"
    /\ IF msg[w].event_type = "deleted"
       THEN /\ index' = delete_from_solr(msg[w].file_path, ok)
            /\ global_processing' = global_processing \ {msg[w].file_path}
            /\ pc' = [pc EXCEPT ![w] = "idle"]
            /\ msg' = [msg EXCEPT ![w] = NoMsg]
       ELSE /\ pc' = [pc EXCEPT ![w] = "extracted"]
            /\ UNCHANGED <<index, global_processing, msg>>
    /\ UNCHANGED <<otherVars, fs, now, watcherVars, queue_lock, queued_files,
                   processed_set, processed, file_hash, queue>>

\* MetadataExtractorService.process_file up to the extraction of metadata:
\* the deleted branch, the missing-file branch, or on to indexing; ok is
\* Solr's answer to the delete
ProcessFileStart(w, ok) ==
    /\ pc[w] = "popped"
    /\ IF msg[w].event_type = "deleted"
       THEN /\ index' = delete_from_solr(msg[w].file_path, ok)
            /\ global_processing' = global_processing \ {msg[w].file_path}
            /\ pc' = [pc EXCEPT ![w] = "idle"]
            /\ msg' = [msg EXCEPT ![w] = NoMsg]
       ELSE IF ~Exists(msg[w].container_path)
       THEN /\ pc' = [pc EXCEPT ![w] = "idle"]
            /\ msg' = [msg EXCEPT ![w] = NoMsg]
            /\ UNCHANGED <<index, global_processing>>
       ELSE /\ pc' = [pc EXCEPT ![w] = "extracted"]
            /\ UNCHANGED <<index, global_processing, msg>>
    /\ UNCHANGED <<otherVars, fs, now, watcherVars, queue_lock, queued_files,
                   processed_set, processed, file_hash, queue>>

\* MetadataExtractorService.process_file from index_in_solr to its return;
\* qok and pok are Solr's answers to the select and to the update.  The
\* push to thumbnail_generation_queue touches no key of the pipeline modelled
\* here and is left out.
ProcessFileIndex(w, qok, pok) ==
    LET m == msg[w]
        needed == check_if_update_needed(Document(m), qok)
        success == ~needed \/ pok
    IN  /\ pc[w] = "extracted"
        /\ index' = IF needed /\ pok THEN Upsert(Document(m)) ELSE index
        /\ processed' = IF success
                        THEN [processed EXCEPT ![m.file_path] = "recent"]
                        ELSE processed
        /\ processed_set' = IF success
                            THEN processed_set \cup {m.file_path}
                            ELSE processed_set
        /\ queued_files' = IF success
                           THEN queued_files \ {m.file_path}
                           ELSE queued_files
        /\ global_processing' = global_processing \ {m.file_path}
        /\ pc' = [pc EXCEPT ![w] = "idle"]
        /\ msg' = [msg EXCEPT ![w] = NoMsg]
        /\ UNCHANGED <<otherVars, fs, now, watcherVars, queue_lock, file_hash, queue>>

\* ------------------------------------------------------------- Redis TTLs
\* global_processing:<k> was set with ex=1800
ExpireGlobalLock(k) ==
    /\ k \in global_processing
    /\ global_processing' = global_processing \ {k}
    /\ UNCHANGED <<otherVars, fs, now, watcherVars, queue_lock, queued_files,
                   processed_set, processed, file_hash, queue, index, workerVars>>

\* processed:<k> holds the time of the last indexing: after 7200 s the
\* value no longer stops an enqueue, exactly as after the key's expiry
\* (ex=86400); "none" stands for both
AgeProcessed(k) ==
    /\ processed[k] = "recent"
    /\ processed' = [processed EXCEPT ![k] = "none"]
    /\ UNCHANGED <<otherVars, fs, now, watcherVars, global_processing, queue_lock,
                   queued_files, processed_set, file_hash, queue, index,
                   workerVars>>

\* file_hash:<h> was set with ex=86400
ExpireFileHash(h) ==
    /\ file_hash[h] # NoPath
    /\ file_hash' = [file_hash EXCEPT ![h] = NoPath]
    /\ UNCHANGED <<otherVars, fs, now, watcherVars, global_processing, queue_lock,
                   queued_files, processed_set, processed, queue, index,
                   workerVars>>

\* ---------------------------------------------------------- specifications
\* The filesystem changes; N = {TRUE} when every notification is delivered,
\* BOOLEAN when the observer may lose some
Environment(N) ==
    \/ \E p \in Files, c \in Contents, n \in N : FsCreate(p, c, n)
    \/ \E p \in Files, c \in Contents, n \in N : FsModify(p, c, n)
    \/ \E p \in Files, n \in N : FsDelete(p, n)
    \/ \E p, q \in Files, n \in N : FsMove(p, q, n)

Watcher ==
    \/ \E p \in Files : _process_debounced_event(p)
    \/ \E p \in Files : scan_existing_files(p)

\* The extractor processes W; R is the set of answers Solr may give
\* (TRUE = status 200)
Extractor(W, R) ==
    \/ \E w \in W : process_queue(w)
    \/ \E w \in W, ok \in R : ProcessFileStart(w, ok)
    \/ \E w \in W, qok \in R, pok \in R : ProcessFileIndex(w, qok, pok)

Expiry ==
    \/ \E k \in AllKeys : ExpireGlobalLock(k)
    \/ \E k \in AllKeys : AgeProcessed(k)
    \/ \E h \in Hashes : ExpireFileHash(h)

\* One extractor, lossy notifications, Solr may fail
Next == Environment(BOOLEAN) \/ Watcher \/ Extractor({1}, BOOLEAN) \/ Expiry

Spec == Init /\ [][Next]_vars

\* Every notification is delivered and Solr answers 200
NextReliable == Environment({TRUE}) \/ Watcher \/ Extractor({1}, {TRUE}) \/ Expiry

SpecReliable == Init /\ [][NextReliable]_vars

\* ------------------------------------------------------- shared predicates
\* the documents of a logical path
Docs(lp) == {d \in index : d.file_path = lp}

\* a message for the logical path is in file_processing_queue
InQueue(lp) == \E i \in 1..Len(queue) : queue[i].file_path = lp

\* an extractor is between popping a message for the path and returning
\* from process_file
BeingProcessed(lp) ==
    \E w \in Workers : pc[w] \in {"popped", "extracted"} /\ msg[w].file_path = lp

InFlight(lp) == InQueue(lp) \/ BeingProcessed(lp)

\* worker w returns from process_file in this step
Finishes(w) == pc[w] # "idle" /\ pc'[w] = "idle"

\* a timer of path p runs _process_debounced_event in this step
TimerFires(p) == timers'[p] < timers[p]

\* the document process_file writes for the file as it is on disk now
CurrentDocument(p) == Document(_create_file_message(p, "created"))

\* nothing is left to do for path p in the watcher or the extractor
Drained(p) ==
    /\ pending_events[p] = "none"
    /\ timers[p] = 0
    /\ ~InFlight(_get_standardized_path(p))

\* a rescan would push nothing for path p
RescanIdle(p) ==
    ~ /\ Exists(p)
      /\ _is_supported_file(p)
      /\ _get_standardized_path(p) \notin processed_files
      /\ EnqueueOutcome(p, "created") = "pushed"

\* The pipeline has quiesced: every timer has fired, the queue is drained,
\* the extractors are idle, the global locks are released or expired and a
\* rescan finds nothing to push
Settled ==
    /\ \A p \in Files : Drained(p) /\ RescanIdle(p)
    /\ global_processing = {}

\* ------------------------------------------------------ scenario environments
\* A file that is indexed as it is on disk, with nothing in flight
Indexed(p) ==
    /\ Exists(p)
    /\ Docs(_get_standardized_path(p)) = {CurrentDocument(p)}
    /\ Drained(p)

\* One file is created on the empty volumes
CreateOnce ==
    \E p \in Files, c \in Contents : now = 0 /\ FsCreate(p, c, TRUE)

\* The file, indexed and with nothing in flight, is moved
MoveIndexed ==
    \E p, q \in Files : now = 1 /\ Indexed(p) /\ FsMove(p, q, TRUE)

\* An indexed file is deleted
DeleteIndexed == \E p \in Files : Indexed(p) /\ FsDelete(p, TRUE)

\* An indexed file is rewritten with other bytes
ModifyIndexed ==
    \E p \in Files, c \in Contents :
        Indexed(p) /\ c # fs[p].content /\ FsModify(p, c, TRUE)

\* The file is deleted while a created message for it is queued or being
\* extracted
DeleteInFlight ==
    \E p \in Files : InFlight(_get_standardized_path(p)) /\ FsDelete(p, TRUE)

NextMove == CreateOnce \/ MoveIndexed \/ Watcher \/ Extractor({1}, {TRUE}) \/ Expiry

SpecMove == Init /\ [][NextMove]_vars

\* Files are created, and changed only once they are indexed
NextIndexed ==
    \/ \E p \in Files, c \in Contents : FsCreate(p, c, TRUE)
    \/ DeleteIndexed
    \/ ModifyIndexed
    \/ Watcher
    \/ Extractor({1}, {TRUE})
    \/ Expiry

SpecIndexed == Init /\ [][NextIndexed]_vars

\* Nothing of file q is left in the watcher, the queue or the extractor
Untouched(q) ==
    /\ ~Exists(q)
    /\ timers[q] = 0
    /\ {q, _get_standardized_path(q)} \cap global_processing = {}
    /\ ~InFlight(_get_standardized_path(q))

\* One file at a time is created, rewritten and deleted at any moment
Churn ==
    \E p \in Files, c \in Contents :
        /\ \A q \in Files \ {p} : Untouched(q)
        /\ \/ FsCreate(p, c, TRUE)
           \/ FsModify(p, c, TRUE)
           \/ FsDelete(p, TRUE)

\* Solr may fail while the file churns
NextChurn == Churn \/ Watcher \/ Extractor({1}, BOOLEAN) \/ Expiry

SpecChurn == Init /\ [][NextChurn]_vars

\* Two extractor processes on the same queue while a file churns
NextWorkers == Churn \/ Watcher \/ Extractor(Workers, {TRUE}) \/ Expiry

SpecWorkers == Init /\ [][NextWorkers]_vars

NextDeleteInFlight ==
    CreateOnce \/ DeleteInFlight \/ Watcher \/ Extractor({1}, {TRUE}) \/ Expiry

SpecDeleteInFlight == Init /\ [][NextDeleteInFlight]_vars

\* ------------------------------------------------------------------ claims
\* C1: with two extractor workers, at most one worker at a time is between
\* popping a message and returning from process_file for a given logical
\* path.
C1_OneWorkerPerPath ==
    \A v, w \in Workers :
        (v # w /\ pc[v] # "idle" /\ pc[w] # "idle")
            => msg[v].file_path # msg[w].file_path

\* C2: file_processing_queue never holds two messages for the same file.
C2_OneMessagePerFile ==
    \A i, j \in 1..Len(queue) :
        i # j => queue[i].file_path # queue[j].file_path

\* C3: when the extractor returns from process_file after indexing a file,
\* the global_processing key the watcher set for the file at enqueue time
\* (built from its container path) is no longer held.
C3_LockFreeAfterExtractor ==
    [][\A w \in Workers :
          (Finishes(w) /\ pc[w] = "extracted")
              => msg[w].container_path \notin global_processing']_vars

\* C4: every return of process_file leaves global_processing:<logical path>
\* of its message deleted.
C4_EveryExitReleasesLock ==
    [][\A w \in Workers :
          Finishes(w) => msg[w].file_path \notin global_processing']_vars

\* C5: when the debounce timer of a deleted file fires (the file has a
\* document, nothing is in flight for its path and no lock is held), a
\* deleted message for the file is pushed to file_processing_queue.
C5_DeleteIsEnqueued ==
    [][\A p \in Files :
          ( /\ TimerFires(p)
            /\ pending_events[p] = "deleted"
            /\ ~Exists(p)
            /\ Docs(_get_standardized_path(p)) # {}
            /\ ~InFlight(_get_standardized_path(p))
            /\ p \notin global_processing
            /\ p \notin queued_files )
          => \E i \in 1..Len(queue') :
                /\ queue'[i].event_type = "deleted"
                /\ queue'[i].file_path = _get_standardized_path(p)]_vars

\* C6: when the debounce timer of a modified file fires, the file being
\* indexed with other contents and nothing in flight for its path, a
\* modified message with the new content hash and date is pushed.
C6_ModifyIsEnqueued ==
    [][\A p \in Files :
          ( /\ TimerFires(p)
            /\ pending_events[p] = "modified"
            /\ Exists(p)
            /\ Docs(_get_standardized_path(p)) # {}
            /\ CurrentDocument(p) \notin Docs(_get_standardized_path(p))
            /\ ~InFlight(_get_standardized_path(p)) )
          => \E i \in 1..Len(queue') :
                /\ queue'[i].event_type = "modified"
                /\ Document(queue'[i]) = CurrentDocument(p)]_vars

\* C7: once the pipeline has quiesced after the move of an indexed file, the
\* index holds exactly one document for the new path and none for the old.
C7_MoveReindexes ==
    (now = 2 /\ Settled) =>
        \A p \in Files :
            IF Exists(p)
            THEN Cardinality(Docs(_get_standardized_path(p))) = 1
            ELSE Docs(_get_standardized_path(p)) = {}

\* C8: once the pipeline has quiesced, the index holds for every path the
\* outcome of its last filesystem event: the current document of a file
\* that exists, no document of a file that does not.
C8_NoLostUpdate ==
    Settled =>
        \A p \in Files :
            IF Exists(p)
            THEN Docs(_get_standardized_path(p)) = {CurrentDocument(p)}
            ELSE Docs(_get_standardized_path(p)) = {}

\* C9: once the pipeline has quiesced after a file was deleted while its
\* created message was in flight, the index holds no document for the path.
C9_DeleteWins ==
    Settled =>
        \A p \in Files :
            ~Exists(p) => Docs(_get_standardized_path(p)) = {}

\* C10: when process_file handles a created or modified message whose
\* container file does not exist, it returns without writing to the index.
C10_NoResurrection ==
    [][\A w \in Workers :
          ( /\ pc[w] = "popped"
            /\ pc'[w] # "popped"
            /\ msg[w].event_type \in CreatedOrModified
            /\ ~Exists(msg[w].container_path) )
          => (index' = index /\ pc'[w] = "idle")]_vars

\* a stale created message, for a file that is gone and whose document was
\* never written or is deleted, is about to be processed
C10_Witness ==
    \E w \in Workers :
        /\ pc[w] = "popped"
        /\ msg[w].event_type \in CreatedOrModified
        /\ ~Exists(msg[w].container_path)
        /\ Docs(msg[w].file_path) = {}

\* ------------------------------------------------- scenario: index failure
\* One file is created and never changes again; Solr may answer any request
\* with a status other than 200
NextIndexFailure == CreateOnce \/ Watcher \/ Extractor({1}, BOOLEAN) \/ Expiry

SpecIndexFailure == Init /\ [][NextIndexFailure]_vars

\* the file exists and the index holds a document for its logical path
HasDocument(p) == Docs(_get_standardized_path(p)) # {}

\* C11: after a failed index write, once the timers, the queue, the
\* extractor and the locks have come to rest and the rescan has nothing left
\* to push, every file that still exists has been indexed.
C11_RescanRecovers ==
    Settled => \A p \in Files : Exists(p) => HasDocument(p)

\* ----------------------------------------------- scenario: extractor crash
\* An extractor process dies between BRPOP and the return of process_file
\* and is started again: the popped message is gone, every Redis key stays
Crash(w) ==
    /\ pc[w] # "idle"
    /\ pc' = [pc EXCEPT ![w] = "idle"]
    /\ msg' = [msg EXCEPT ![w] = NoMsg]
    /\ UNCHANGED <<otherVars, fs, now, watcherVars, redisVars, index>>

\* One file is created and never changes again; the extractor may crash
NextCrash ==
    \/ CreateOnce
    \/ Watcher
    \/ Extractor({1}, {TRUE})
    \/ \E w \in {1} : Crash(w)
    \/ Expiry

SpecCrash == Init /\ [][NextCrash]_vars

\* C12: after a crash of the extractor, once the orphaned lock has expired
\* and the pipeline has come to rest, every file that exists has exactly one
\* document.
C12_CrashRecovers ==
    Settled =>
        \A p \in Files :
            Exists(p) => Cardinality(Docs(_get_standardized_path(p))) = 1

\* ----------------------------------------------- scenario: watcher downtime
\* The filesystem after one change of the given kind to file p
Changed(p, c, kind) ==
    IF kind = "deleted"
    THEN [fs EXCEPT ![p] = NoFile]
    ELSE [fs EXCEPT ![p] = [content |-> c, mtime |-> now + 1]]

\* NASFileHandler._load_processed_files: the in-memory set becomes the
\* members of the Redis set processed_files
_load_processed_files == processed_set

\* The watcher process is stopped while nothing is in flight, a file is
\* created, rewritten or deleted unobserved, and the watcher is started
\* again: the timers and pending events of the old process are gone and
\* NASFileHandler.__init__ reloads processed_files.  The startup scan
\* follows as scan_existing_files steps.
Downtime ==
    \E p \in Files, c \in Contents, kind \in {"created", "modified", "deleted"} :
        /\ now < MaxClock
        /\ \A q \in Files : Drained(q)
        /\ Exists(p) <=> kind # "created"
        /\ kind = "modified" => c # fs[p].content
        /\ now' = now + 1
        /\ fs' = Changed(p, c, kind)
        /\ pending_events' = [f \in Paths |-> "none"]
        /\ timers' = [f \in Paths |-> 0]
        /\ processed_files' = _load_processed_files
        /\ in_stage4' = [f \in Paths |-> NotQueuing]
        /\ timestamp' = [f \in Paths |-> NoTime]
        /\ due' = [f \in Paths |-> << >>]
        /\ UNCHANGED <<otherVars, redisVars, index, workerVars>>

NextDowntime == CreateOnce \/ Downtime \/ Watcher \/ Extractor({1}, {TRUE}) \/ Expiry

SpecDowntime == Init /\ [][NextDowntime]_vars

\* C13: once the watcher has been restarted after a downtime and the
\* pipeline has come to rest again, the index reflects every file that was
\* indexed before the restart as it is now: the current document if the
\* file is on disk, none if it is gone.
C13_DowntimeRecovered ==
    (now > 1 /\ Settled) =>
        \A p \in Files :
            _get_standardized_path(p) \in processed_files =>
                Docs(_get_standardized_path(p)) =
                    IF Exists(p) THEN {CurrentDocument(p)} ELSE {}

\* ------------------------------------------------ scenario: fair scheduling
\* One file is created and then moved between the volumes; every
\* notification is delivered and Solr answers 200
NextFair ==
    \/ CreateOnce
    \/ \E p, q \in Files : FsMove(p, q, TRUE)
    \/ Watcher
    \/ Extractor({1}, {TRUE})
    \/ Expiry

\* Every started timer fires, the periodic rescan visits every file again
\* and again, the extractor loop keeps taking steps and every TTL runs out
Fairness ==
    /\ \A p \in Files : WF_vars(_process_debounced_event(p))
    /\ \A p \in Files : WF_vars(scan_existing_files(p))
    /\ WF_vars(process_queue(1))
    /\ WF_vars(ProcessFileStart(1, TRUE))
    /\ WF_vars(ProcessFileIndex(1, TRUE, TRUE))
    /\ \A k \in AllKeys : WF_vars(ExpireGlobalLock(k))
    /\ \A k \in AllKeys : WF_vars(AgeProcessed(k))
    /\ \A h \in Hashes : WF_vars(ExpireFileHash(h))

SpecFair == Init /\ [][NextFair]_vars /\ Fairness

\* C14: from some moment on, every file that exists on a volume has a
\* document in the index.
C14_EventuallyIndexed ==
    <>[](\A p \in Files : Exists(p) => HasDocument(p))

\* ---------------------------------------------------- scenario: re-indexing
\* One file is created and, each time it is indexed and nothing is in
\* flight, rewritten; rescans push it again; Solr may fail
NextReindex == CreateOnce \/ ModifyIndexed \/ Watcher \/ Extractor({1}, BOOLEAN) \/ Expiry

SpecReindex == Init /\ [][NextReindex]_vars

\* C15: the index never holds two documents with the same file_path, and
\* the id of every document is the SHA-256 of its file_path.
C15_OneDocumentPerPath ==
    /\ \A d \in index : d.id = Sha256(d.file_path)
    /\ \A d, e \in index : d.file_path = e.file_path => d = e

\* the file was indexed, rewritten and indexed again: its document carries
\* the date of the rewrite (a file is rewritten only once it is indexed)
C15_Witness ==
    \E p \in Files :
        /\ fs[p].mtime >= 2
        /\ Docs(_get_standardized_path(p)) = {CurrentDocument(p)}

\* ------------------------------------------------------- scenario: a burst
\* A burst of notifications for one path: the first reaches a path nothing
\* is known of, and every further one arrives while the event of the one
\* before is still pending, that is before any timer of the burst has fired
Burst ==
    \E p \in Files, c \in Contents :
        /\ pending_events[p] # "none" \/ Untouched(p)
        /\ \/ FsCreate(p, c, TRUE)
           \/ FsModify(p, c, TRUE)
           \/ FsDelete(p, TRUE)

\* Only notifications feed the queue: no scan runs during the burst
NextBurst ==
    \/ Burst
    \/ \E p \in Files : _process_debounced_event(p)
    \/ Extractor({1}, {TRUE})
    \/ Expiry

SpecBurst == Init /\ [][NextBurst]_vars

\* the messages of a logical path in file_processing_queue
QueuedFor(lp) == {i \in 1..Len(queue) : queue[i].file_path = lp}

\* the work items a burst has produced for a logical path: queued, being
\* processed, or written to the index
WorkItems(lp) ==
    Cardinality(QueuedFor(lp))
        + (IF BeingProcessed(lp) THEN 1 ELSE 0)
        + (IF Docs(lp) # {} THEN 1 ELSE 0)

\* C16: a burst of notifications for a path puts at most one message on
\* file_processing_queue and leads to at most one index write.
C16_BurstDedup ==
    \A p \in Files : WorkItems(_get_standardized_path(p)) <= 1

\* the first timer of a burst of two notifications has pushed the message
\* and the second timer is still to fire
C16_Witness ==
    \E p \in Files :
        /\ timers[p] > 0
        /\ pending_events[p] = "none"
        /\ QueuedFor(_get_standardized_path(p)) # {}

\* ------------------------------------------- scenario: two identical copies
\* Files are created on the two volumes; timer threads may interleave
\* inside stage 4; no file_hash key expires (everything happens within its
\* 24 hours)
NextCopies ==
    \/ \E p \in Files, c \in Contents : FsCreate(p, c, TRUE)
    \/ \E p \in Files : _process_debounced_event(p)
    \/ \E p \in Files : Stage4Get(p)
    \/ \E p \in Files : Stage4SetAndPush(p)
    \/ Extractor({1}, {TRUE})
    \/ \E k \in AllKeys : ExpireGlobalLock(k)

SpecCopies == Init /\ [][NextCopies]_vars

\* C17: of two files with identical content only one is indexed: no two
\* documents of different paths carry the same content hash.
C17_OnlyFirstCopyIndexed ==
    \A d, e \in index :
        d.content_hash = e.content_hash => d.file_path = e.file_path

\* ------------------------------------------- scenario: unsupported extension
\* FileB and the unsupported FileC are created, rewritten, deleted and
\* renamed into one another; every notification is delivered; scans run
NextUnsupported ==
    \/ \E p \in {FileB, FileC}, c \in Contents : FsCreate(p, c, TRUE)
    \/ \E p \in {FileB, FileC}, c \in Contents : FsModify(p, c, TRUE)
    \/ \E p \in {FileB, FileC} : FsDelete(p, TRUE)
    \/ \E p, q \in {FileB, FileC} : FsMove(p, q, TRUE)
    \/ \E p \in Paths : _process_debounced_event(p)
    \/ \E p \in Paths : scan_existing_files(p)
    \/ Extractor({1}, {TRUE})
    \/ Expiry

SpecUnsupported == Init /\ [][NextUnsupported]_vars

\* C18: a file whose extension is not in the supported set has no message
\* in file_processing_queue or in the hands of an extractor and no document.
C18_UnsupportedNeverIndexed ==
    \A p \in Paths :
        Suffix(p) \notin SUPPORTED_EXTENSIONS =>
            /\ ~InFlight(_get_standardized_path(p))
            /\ Docs(_get_standardized_path(p)) = {}

\* an indexed supported file has been renamed to the unsupported name and
\* the watcher has nothing pending
C18_Witness ==
    /\ Exists(FileC)
    /\ ~Exists(FileB)
    /\ Docs(_get_standardized_path(FileB)) # {}
    /\ \E d \in Docs(_get_standardized_path(FileB)) :
           /\ d.modified_date = fs[FileC].mtime
           /\ d.content_hash = _get_file_hash(FileC)
    /\ \A p \in Paths : timers[p] = 0

\* --------------------------------------- scenario: create, delete, create
\* The file created first is deleted and then created again at the same
\* path, at any pace; every notification is delivered
Recreate ==
    \E p \in Files, c \in Contents :
        /\ \A q \in Files \ {p} : Untouched(q)
        /\ \/ now = 1 /\ FsDelete(p, TRUE)
           \/ now = 2 /\ FsCreate(p, c, TRUE)

NextRecreate == CreateOnce \/ Recreate \/ Watcher \/ Extractor({1}, {TRUE}) \/ Expiry

SpecRecreate == Init /\ [][NextRecreate]_vars

\* the document is the one a single create of file p as it is now produces,
\* dates aside
SameAsSingleCreate(d, p) ==
    /\ d.id = CurrentDocument(p).id
    /\ d.file_path = CurrentDocument(p).file_path
    /\ d.content_hash = CurrentDocument(p).content_hash
    /\ d.file_size = CurrentDocument(p).file_size

\* C19: once the pipeline has come to rest after create, delete, create of
\* a file, the index holds exactly one document for its path, with the id,
\* path, content hash and size a single create of the file produces.
C19_RecreateAsSingleCreate ==
    (now = 3 /\ Settled) =>
        \A p \in Files :
            Exists(p) =>
                /\ Cardinality(Docs(_get_standardized_path(p))) = 1
                /\ \A d \in Docs(_get_standardized_path(p)) :
                       SameAsSingleCreate(d, p)

\* ------------------------------------------- the same file processed twice
\* worker w is about to index a message whose document is already the only
\* one the index holds for the path
Reprocessing(w) ==
    /\ pc[w] = "extracted"
    /\ Docs(msg[w].file_path) = {Document(msg[w])}

\* C20: when an unchanged file is processed a second time and the select
\* query succeeds, check_if_update_needed answers that no update is needed,
\* so that no document is posted; files of size 0 included.
C20_SecondProcessingSkipsPost ==
    \A w \in Workers :
        Reprocessing(w) => ~check_if_update_needed(Document(msg[w]), TRUE)

\* ------------------------------------------------- queued_files membership
\* a created or modified message for file p is in file_processing_queue or
\* with an extractor
LiveItem(p) ==
    \/ \E i \in 1..Len(queue) :
          /\ queue[i].event_type \in CreatedOrModified
          /\ queue[i].container_path = p
    \/ \E w \in Workers :
          /\ pc[w] # "idle"
          /\ msg[w].event_type \in CreatedOrModified
          /\ msg[w].container_path = p

\* queued_files has a member for file p, under its container path or under
\* its logical path
InQueuedFiles(p) == {p, _get_standardized_path(p)} \cap queued_files # {}

\* C21: a path is a member of queued_files exactly while a created or
\* modified message for it is queued or being processed; with the queue
\* empty and every extractor idle, queued_files is empty.
C21_QueuedFilesTracksQueue ==
    /\ \A p \in Files : InQueuedFiles(p) <=> LiveItem(p)
    /\ (queue = << >> /\ \A w \in Workers : pc[w] = "idle") => queued_files = {}

\* ------------------------------------------------------- the recency check
\* a created or modified message for file p is pushed in this step
Pushes(p) ==
    /\ Len(queue') = Len(queue) + 1
    /\ queue'[1].event_type \in CreatedOrModified
    /\ queue'[1].container_path = p

\* the extractor indexed file p less than 7200 s ago
RecentlyIndexed(p) == processed[_get_standardized_path(p)] = "recent"

\* C22: no created or modified message is pushed for a file the extractor
\* indexed less than 7200 s ago.
C22_RecentIsDropped ==
    [][\A p \in Files : RecentlyIndexed(p) => ~Pushes(p)]_vars

\* --------------------------------------------- the locks after an enqueue
\* a message for file p, of any event type, is pushed in this step
PushesMessage(p) ==
    /\ Len(queue') = Len(queue) + 1
    /\ queue'[1].container_path = p

\* C23: when _queue_file_for_processing has pushed a message for a file,
\* global_processing:<file> is held and queue_lock:<file> is not.
C23_LocksAfterEnqueue ==
    [][\A p \in Files :
          PushesMessage(p) =>
              (p \in global_processing' /\ p \notin queue_lock')]_vars

\* the message of a file has just been pushed: it is the newest of the
\* queue, the file is marked queued and its global lock is held
C23_Witness ==
    \E p \in Files :
        /\ queue # << >>
        /\ queue[1].container_path = p
        /\ p \in queued_files
        /\ p \in global_processing
        /\ p \notin queue_lock

\* ------------------------------------------- Redis errors in the watcher
\* The Redis calls of _queue_file_for_processing, in the order of the code:
\* 1 SET NX global_processing, 2 SISMEMBER queued_files, 3 GET processed,
\* 4 GET file_hash, 5 SET file_hash, 6 SET NX queue_lock, 7 LPUSH,
\* 8 SADD queued_files, 9 DELETE queue_lock (finally)
RedisCalls == 1..9

\* the call for (p, et) gets as far as issuing Redis call number step
ReachesCall(p, et, step) ==
    LET out == EnqueueOutcome(p, et)
        cm == et \in CreatedOrModified
    IN  CASE step = 1 -> TRUE
          [] step = 2 -> out # "locked"
          [] step = 3 -> out \notin {"locked", "queued"} /\ cm
          [] step = 4 -> out \notin {"locked", "queued", "recent"}
                            /\ cm /\ Exists(p)
          [] step = 5 -> out \in {"queuing", "nomessage", "pushed"}
                            /\ cm /\ Exists(p)
          [] step = 6 -> out \in {"queuing", "nomessage", "pushed"}
          [] step = 7 -> out = "pushed"
          [] step = 8 -> out = "pushed" /\ et # "deleted"
          [] step = 9 -> out \in {"nomessage", "pushed"}

\* The two locks when _queue_file_for_processing returns after Redis call
\* number step raised: the calls before it have taken effect, then the
\* finally clause and the except clause ran.  up tells whether Redis
\* answers the DELETEs of those clauses; when it does not, they raise too
\* and the bare except of the cleanup swallows the error.
GlobalLocksAfterRaise(p, step, up) ==
    LET locked == IF step >= 2 THEN global_processing \cup {p}
                  ELSE global_processing
    IN  IF up THEN locked \ {p} ELSE locked

QueueLocksAfterRaise(p, step, up) ==
    LET queuing == IF step >= 7 THEN queue_lock \cup {p} ELSE queue_lock
    IN  IF up THEN queuing \ {p} ELSE queuing

\* NASFileHandler._queue_file_for_processing when Redis call number step
\* raises
_queue_file_for_processing_raises(p, et, step, up) ==
    LET hashed == et \in CreatedOrModified /\ Exists(p)
        pushed == EnqueueOutcome(p, et) = "pushed"
    IN  /\ ReachesCall(p, et, step)
        /\ global_processing' = GlobalLocksAfterRaise(p, step, up)
        /\ queue_lock' = QueueLocksAfterRaise(p, step, up)
        /\ file_hash' = IF step >= 6 /\ hashed
                        THEN [file_hash EXCEPT ![_get_file_hash(p)] = p]
                        ELSE file_hash
        /\ queue' = IF step >= 8 /\ pushed
                    THEN <<_create_file_message(p, et)>> \o queue
                    ELSE queue
        /\ queued_files' = IF step = 9 /\ pushed /\ et # "deleted"
                           THEN queued_files \cup {p}
                           ELSE queued_files

\* the timer of p is about to call _queue_file_for_processing, and the
\* call gets as far as Redis call number step
CallReaches(p, step) ==
    /\ timers[p] > 0
    /\ Len(queue) < MaxQueue
    /\ pending_events[p] # "none"
    /\ pending_events[p] \in CreatedOrModified => Exists(p)
    /\ ~TooOld(p)
    /\ ReachesCall(p, pending_events[p], step)

\* A debounce timer fires and a Redis call of the enqueue raises
RedisError(p, step, up) ==
    /\ CallReaches(p, step)
    /\ timers' = [timers EXCEPT ![p] = @ - 1]
    /\ due' = [due EXCEPT ![p] = Tail(@)]
    /\ pending_events' = [pending_events EXCEPT ![p] = "none"]
    /\ timestamp' = [timestamp EXCEPT ![p] = NoTime]
    /\ _queue_file_for_processing_raises(p, pending_events[p], step, up)
    /\ UNCHANGED <<processed_set, processed>>
    /\ UNCHANGED <<otherVars, fs, now, processed_files, in_stage4, index,
                   workerVars>>

\* A file churns while Redis is reachable only at times
NextRedisError ==
    \/ Churn
    \/ Watcher
    \/ \E p \in Files, step \in RedisCalls, up \in BOOLEAN :
          RedisError(p, step, up)
    \/ Extractor({1}, {TRUE})
    \/ Expiry

SpecRedisError == Init /\ [][NextRedisError]_vars

\* C24: whichever step of _queue_file_for_processing raises, neither
\* global_processing:<file> nor queue_lock:<file> is held when the call
\* returns.
C24_ErrorReleasesLocks ==
    \A p \in Files, step \in RedisCalls, up \in BOOLEAN :
        CallReaches(p, step) =>
            /\ p \notin GlobalLocksAfterRaise(p, step, up)
            /\ p \notin QueueLocksAfterRaise(p, step, up)

\* ------------------------------------------ termination of an extractor
\* The termination signal reaches an extractor process.  In BRPOP or inside
\* process_file, KeyboardInterrupt is no Exception: no except clause of
\* process_file catches it, process_queue catches it and breaks out of the
\* loop, and the process ends with whatever it had popped.
Interrupt(w) ==
    /\ pc[w] # "exited"
    /\ pc' = [pc EXCEPT ![w] = "exited"]
    /\ msg' = [msg EXCEPT ![w] = NoMsg]
    /\ UNCHANGED <<otherVars, fs, now, watcherVars, redisVars, index>>

\* One file is created and the extractor is told to terminate at some point
NextInterrupt ==
    \/ CreateOnce
    \/ Watcher
    \/ Extractor({1}, {TRUE})
    \/ \E w \in {1} : Interrupt(w)
    \/ Expiry

SpecInterrupt == Init /\ [][NextInterrupt]_vars

\* C26: an extractor that is told to terminate while it processes an item
\* does not exit with the item's global_processing lock still held.
C26_WorkerFinishesItem ==
    [][\A w \in Workers :
          (pc[w] \in {"popped", "extracted"} /\ pc'[w] = "exited")
              => {msg[w].file_path, msg[w].container_path}
                     \cap global_processing' = {}]_vars

\* ------------------------------------------ termination of the file monitor
\* FileMonitorService.start_monitoring catches KeyboardInterrupt in its
\* loop and stops the observer: no handler is called any more.  Nothing
\* cancels the threading.Timer threads already started.
Terminate ==
    /\ monitor = "running"
    /\ monitor' = "stopping"
    /\ UNCHANGED <<clock, thumbnail_files, thumbnails,
                   thumbnail_generation_queue, fs, now, watcherVars,
                   redisVars, index, workerVars>>

\* observer.join() returns and the process ends; timers that have not
\* fired by then end with it
Exit ==
    /\ monitor = "stopping"
    /\ monitor' = "exited"
    /\ \A p \in Paths : in_stage4[p] = NotQueuing
    /\ pending_events' = [f \in Paths |-> "none"]
    /\ timestamp' = [f \in Paths |-> NoTime]
    /\ timers' = [f \in Paths |-> 0]
    /\ due' = [f \in Paths |-> << >>]
    /\ UNCHANGED <<clock, thumbnail_files, thumbnails,
                   thumbnail_generation_queue, fs, now,
                   processed_files, in_stage4, redisVars, index, workerVars>>

\* the observer dispatches notifications to the handler
Observing == monitor = "running"

\* A file churns; the handler is called while the observer runs
ObservedChurn ==
    \E p \in Files, c \in Contents :
        /\ \A q \in Files \ {p} : Untouched(q)
        /\ \/ FsCreate(p, c, Observing)
           \/ FsModify(p, c, Observing)
           \/ FsDelete(p, Observing)

\* a timer thread of the monitor process runs
TimerThread(p) == monitor # "exited" /\ _process_debounced_event(p)

\* the periodic rescan of the main loop
Rescan(p) == monitor = "running" /\ scan_existing_files(p)

\* A file churns; the monitor is told to terminate at some point
NextShutdown ==
    \/ ObservedChurn
    \/ \E p \in Files : TimerThread(p)
    \/ \E p \in Files : Rescan(p)
    \/ Terminate
    \/ Exit
    \/ Extractor({1}, {TRUE})
    \/ Expiry

SpecShutdown == Init /\ [][NextShutdown]_vars

\* C25: once the monitor has received the termination signal, no message
\* is pushed to file_processing_queue.
C25_NoPushAfterShutdown ==
    [][monitor # "running" => Len(queue') <= Len(queue)]_vars

\* ------------------------------------------------- the thumbnail generator
\* (services/thumbnail-generator/generator.py).  The worker pops messages
\* from thumbnail_generation_queue, where the extractor pushes the message
\* of every image or video it has indexed; by the time the worker pops a
\* message the file may have changed or gone, so a message for any path may
\* meet any state of the volumes.  The worker opens Path(message
\* ['file_path']), the logical path, on the same filesystem as the monitor
\* and the extractor.
IMAGE_FORMATS == {".jpg", ".jpeg", ".png", ".gif", ".bmp", ".tiff", ".tif", ".webp"}
VIDEO_FORMATS ==
    {".mp4", ".avi", ".mkv", ".mov", ".wmv", ".flv", ".webm", ".m4v", ".mpg",
     ".mpeg"}

\* the expiry process_file sets on thumbnails:<k>: 86400 * 30 seconds
ThumbnailTTL == 86400 * 30

\* file_path.exists() for the path of a message
PathExists(k) == k \in Paths /\ Exists(k)

\* the messages the worker may pop
ThumbnailMessages ==
    [event_type : {"created", "modified", "deleted"},
     file_path : {_get_standardized_path(p) : p \in Files}]

\* every size has its thumbnail file
AllExist(k) == \A z \in THUMBNAIL_SIZES : thumbnail_files[k][z] # NoImage

\* generate_image_thumbnails / generate_video_thumbnails: the sizes in
\* rendered are written from the file as it is now, the others fail
Render(k, rendered) ==
    [files |-> [thumbnail_files EXCEPT ![k] =
                   [z \in THUMBNAIL_SIZES |->
                       IF z \in rendered THEN fs[k].content ELSE @[z]]],
     result |-> rendered]

\* generate_thumbnails without the check for existing thumbnails
generate_thumbnails_AlwaysRender(k, rendered) ==
    IF ~PathExists(k)
    THEN [files |-> thumbnail_files, result |-> {}]
    ELSE IF Suffix(k) \in IMAGE_FORMATS \cup VIDEO_FORMATS
    THEN Render(k, rendered)
    ELSE [files |-> thumbnail_files, result |-> {}]

\* ThumbnailGenerator.generate_thumbnails: the thumbnail files afterwards
\* and the sizes of the returned dict (size -> path)
generate_thumbnails(k, rendered) ==
    IF ~PathExists(k)
    THEN [files |-> thumbnail_files, result |-> {}]
    ELSE IF AllExist(k)
    THEN [files |-> thumbnail_files, result |-> THUMBNAIL_SIZES]
    ELSE IF Suffix(k) \in IMAGE_FORMATS \cup VIDEO_FORMATS
    THEN Render(k, rendered)
    ELSE [files |-> thumbnail_files, result |-> {}]

\* ThumbnailGenerator.cleanup_thumbnails: every existing thumbnail file of
\* the path is unlinked
cleanup_thumbnails(k) ==
    [thumbnail_files EXCEPT ![k] = [z \in THUMBNAIL_SIZES |-> NoImage]]

\* ThumbnailGeneratorService.process_file: the thumbnail files and the
\* Redis hashes after the message is processed
ThumbnailFilesAfter(m, rendered) ==
    IF m.event_type = "deleted"
    THEN cleanup_thumbnails(m.file_path)
    ELSE generate_thumbnails(m.file_path, rendered).files

ThumbnailsAfter(m, rendered) ==
    LET made == generate_thumbnails(m.file_path, rendered).result
    IN  IF m.event_type = "deleted" \/ made = {}
        THEN thumbnails
        ELSE [thumbnails EXCEPT ![m.file_path] =
                 [fields |-> @.fields \cup made, ttl |-> ThumbnailTTL]]

\* ThumbnailGeneratorService.process_queue: one message is popped and
\* processed
thumbnail_process_file(m, rendered) ==
    /\ thumbnail_files' = ThumbnailFilesAfter(m, rendered)
    /\ thumbnails' = ThumbnailsAfter(m, rendered)
    /\ UNCHANGED <<monitor, clock, thumbnail_generation_queue, fs, now,
                   watcherVars, redisVars, index, workerVars>>

\* thumbnails:<k> runs out
ExpireThumbnails(k) ==
    /\ thumbnails[k] # NoThumbnails
    /\ thumbnails' = [thumbnails EXCEPT ![k] = NoThumbnails]
    /\ UNCHANGED <<monitor, clock, thumbnail_files,
                   thumbnail_generation_queue, fs, now, watcherVars,
                   redisVars, index, workerVars>>

\* The files of the volumes change while the thumbnail worker runs; the
\* rest of the pipeline stands still
NextThumbnails ==
    \/ \E p \in Files, c \in Contents : FsCreate(p, c, FALSE)
    \/ \E p \in Files, c \in Contents : FsModify(p, c, FALSE)
    \/ \E p \in Files : FsDelete(p, FALSE)
    \/ \E m \in ThumbnailMessages, rendered \in SUBSET THUMBNAIL_SIZES :
          thumbnail_process_file(m, rendered)
    \/ \E k \in AllKeys : ExpireThumbnails(k)

SpecThumbnails == Init /\ [][NextThumbnails]_vars

\* C27: for an image or video that exists on a configured volume, when the
\* renderer produces all three sizes, processing a created or modified
\* message leaves thumbnails:<logical path> with the small, medium and large
\* entries and an expiry of 30 days.
C27_ThumbnailsRecorded ==
    \A p \in Files, et \in CreatedOrModified :
        LET lp == _get_standardized_path(p)
            m == [event_type |-> et, file_path |-> lp]
        IN  (Exists(p) /\ Suffix(p) \in IMAGE_FORMATS \cup VIDEO_FORMATS)
                => ThumbnailsAfter(m, THUMBNAIL_SIZES)[lp] =
                       [fields |-> THUMBNAIL_SIZES, ttl |-> ThumbnailTTL]

\* C28: after the thumbnail worker has processed a deleted message for a
\* path, none of the three thumbnail files of the path exists and the hash
\* thumbnails:<path> is gone.
C28_DeleteRemovesThumbnails ==
    \A p \in Files :
        LET lp == _get_standardized_path(p)
            m == [event_type |-> "deleted", file_path |-> lp]
        IN  /\ \A z \in THUMBNAIL_SIZES :
                  ThumbnailFilesAfter(m, {})[lp][z] = NoImage
            /\ ThumbnailsAfter(m, {})[lp] = NoThumbnails

\* C29: generate_thumbnails on a file whose three thumbnails exist renders
\* nothing, leaves the thumbnail files as they are and returns the three
\* sizes, whatever the renderer would have produced.
C29_GenerateIsIdempotent ==
    \A k \in AllKeys, rendered \in SUBSET THUMBNAIL_SIZES :
        (PathExists(k) /\ AllExist(k)) =>
            /\ generate_thumbnails(k, rendered).files = thumbnail_files
            /\ generate_thumbnails(k, rendered).result = THUMBNAIL_SIZES

\* the three thumbnails of a file were rendered and recorded, and the file
\* has been rewritten since: rendering again would change them
C29_Witness ==
    \E k \in AllKeys :
        /\ PathExists(k)
        /\ AllExist(k)
        /\ thumbnails[k].fields = THUMBNAIL_SIZES
        /\ \A z \in THUMBNAIL_SIZES : thumbnail_files[k][z] # fs[k].content

\* ------------------------------------------------- the debounce in seconds
\* a timer of path p has run its delay
TimerIsDue(p) == due[p] # << >> /\ Head(due[p]) <= clock

\* One second passes; a timer that is due runs before the next second
Tick ==
    /\ clock < MaxTime
    /\ \A p \in Paths : ~TimerIsDue(p)
    /\ clock' = clock + 1
    /\ UNCHANGED <<monitor, thumbnail_files, thumbnails,
                   thumbnail_generation_queue, fs, now, watcherVars,
                   redisVars, index, workerVars>>

\* threading.Timer runs _process_debounced_event debounce_delay seconds
\* after its start
TimerRuns(p) == TimerIsDue(p) /\ _process_debounced_event(p)

\* Files are created, rewritten and deleted as seconds pass
NextDebounce ==
    \/ \E p \in Files, c \in Contents : FsCreate(p, c, TRUE)
    \/ \E p \in Files, c \in Contents : FsModify(p, c, TRUE)
    \/ \E p \in Files : FsDelete(p, TRUE)
    \/ Tick
    \/ \E p \in Files : TimerRuns(p)
    \/ Extractor({1}, {TRUE})

SpecDebounce == Init /\ [][NextDebounce]_vars

\* a timer of p fires in this step and gets as far as calling
\* _queue_file_for_processing
EnqueueAttempt(p) ==
    /\ TimerFires(p)
    /\ pending_events[p] # "none"
    /\ pending_events[p] \in CreatedOrModified => Exists(p)
    /\ ~TooOld(p)

\* C30: the enqueue attempt for a path is made no earlier than
\* debounce_delay seconds after the most recent notification for the path.
C30_DebounceRestarts ==
    [][\A p \in Files :
          EnqueueAttempt(p) => clock - timestamp[p] >= debounce_delay]_vars

\* ------------------------------------------------ coalescing notifications
\* the event type of the notification a change of file p in this step raises
NotificationType(p) ==
    IF ~Exists(p) THEN "created"
    ELSE IF fs'[p].content = 0 THEN "deleted"
    ELSE "modified"

\* C31: a notification for a path (a handler starts a timer for it) leaves
\* the pending entry with its event type, except that a pending deleted is
\* not replaced by a later created or modified.
C31_DeletedWins ==
    [][\A p \in Files :
          timers'[p] > timers[p] =>
              pending_events'[p] =
                  IF pending_events[p] = "deleted" THEN "deleted"
                  ELSE NotificationType(p)]_vars

\* ------------------------------------------- the update check as a relation
\* the documents process_file may assemble from a created or modified
\* message: any supported file, any contents (or an unreadable file, whose
\* hash is empty), any date
CandidateDocuments ==
    {[id |-> Sha256(_get_standardized_path(p)),
      file_path |-> _get_standardized_path(p),
      content_hash |-> h,
      file_size |-> z,
      modified_date |-> t] :
        p \in Files, h \in Hashes \cup {NoHash},
        z \in {SizeOf(c) : c \in Contents}, t \in 0..MaxClock}

\* C32: check_if_update_needed answers that no write is needed exactly when
\* the select query succeeds and the one stored document of the path has the
\* candidate's size and either its content hash or a date not older than the
\* candidate's; size 0 and the empty hash included.
C32_SkipsExactlyWhenCurrent ==
    \A document \in CandidateDocuments, qok \in BOOLEAN :
        ~check_if_update_needed(document, qok)
            <=> /\ qok
                /\ Cardinality(Docs(document.file_path)) = 1
                /\ \A existing_doc \in Docs(document.file_path) :
                       /\ existing_doc.file_size = document.file_size
                       /\ \/ existing_doc.content_hash = document.content_hash
                          \/ document.modified_date
                                 <= existing_doc.modified_date

\* ------------------------------------------------ rescans and processed_files
\* C33: no scan submits a file whose logical path is a member of
\* processed_files at the time of the scan: the global lock of a file the
\* extractor has recorded as processed is not acquired in a step in which no
\* timer of the file fires, that is by a scan.
C33_ScanSkipsProcessed ==
    [][\A p \in Files :
          ( /\ p \notin global_processing
            /\ p \in global_processing'
            /\ ~TimerFires(p) )
          => _get_standardized_path(p) \notin processed_set]_vars

\* ------------------------------------------------ the span of the global lock
\* C34: whenever the global lock of a file is held, under its container
\* path or under its logical path, a message for the file is in
\* file_processing_queue or being processed by an extractor.
C34_LockOnlyWhileInFlight ==
    \A p \in Files :
        {p, _get_standardized_path(p)} \cap global_processing # {}
            => InFlight(_get_standardized_path(p))

\* ------------------------------------ from the extractor to the thumbnails
\* trigger_thumbnail_generation that pushes the message of every file
trigger_thumbnail_generation_AnyExtension(m) ==
    <<m>> \o thumbnail_generation_queue

\* MetadataExtractorService.trigger_thumbnail_generation: the list after the
\* call; message['file_extension'] is the suffix of the container path
trigger_thumbnail_generation(m) ==
    IF Suffix(m.container_path) \in IMAGE_FORMATS \cup VIDEO_FORMATS
    THEN <<m>> \o thumbnail_generation_queue
    ELSE thumbnail_generation_queue

\* the index step of worker w succeeds under Solr's answers: the document is
\* up to date or the update is accepted
IndexSucceeds(w, qok, pok) ==
    ~check_if_update_needed(Document(msg[w]), qok) \/ pok

\* MetadataExtractorService.process_file from index_in_solr to its return,
\* with the push to thumbnail_generation_queue that follows a successful
\* index step
ProcessFileIndexAndTrigger(w, qok, pok) ==
    LET m == msg[w]
        needed == check_if_update_needed(Document(m), qok)
        success == IndexSucceeds(w, qok, pok)
    IN  /\ pc[w] = "extracted"
        /\ Len(thumbnail_generation_queue) < MaxThumbnailQueue
        /\ index' = IF needed /\ pok THEN Upsert(Document(m)) ELSE index
        /\ processed' = IF success
                        THEN [processed EXCEPT ![m.file_path] = "recent"]
                        ELSE processed
        /\ processed_set' = IF success
                            THEN processed_set \cup {m.file_path}
                            ELSE processed_set
        /\ queued_files' = IF success
                           THEN queued_files \ {m.file_path}
                           ELSE queued_files
        /\ global_processing' = global_processing \ {m.file_path}
        /\ thumbnail_generation_queue' =
               IF success THEN trigger_thumbnail_generation(m)
               ELSE thumbnail_generation_queue
        /\ pc' = [pc EXCEPT ![w] = "idle"]
        /\ msg' = [msg EXCEPT ![w] = NoMsg]
        /\ UNCHANGED <<monitor, clock, thumbnail_files, thumbnails, fs, now,
                       watcherVars, queue_lock, file_hash, queue>>

\* ThumbnailGeneratorService.process_queue: BRPOP takes the right end of
\* thumbnail_generation_queue and process_file handles the message; the
\* renderer writes the sizes in rendered
thumbnail_process_queue(rendered) ==
    /\ thumbnail_generation_queue # << >>
    /\ LET m == thumbnail_generation_queue[Len(thumbnail_generation_queue)]
       IN  /\ thumbnail_files' = ThumbnailFilesAfter(m, rendered)
           /\ thumbnails' = ThumbnailsAfter(m, rendered)
    /\ thumbnail_generation_queue' =
           SubSeq(thumbnail_generation_queue, 1,
                  Len(thumbnail_generation_queue) - 1)
    /\ UNCHANGED <<monitor, clock, fs, now, watcherVars, redisVars, index,
                   workerVars>>

\* the files of the root-mounted volume: an image and a text file
DocsFiles == {FileB, FileD}

\* One of the two files is created while nothing is left of the other
CreateAlone(p, c) ==
    /\ \A q \in DocsFiles \ {p} : Untouched(q)
    /\ FsCreate(p, c, TRUE)

\* The image and the text file are created, one once nothing is left of the
\* other, rewritten and deleted; every notification is delivered; Solr may
\* fail; the renderer produces all three sizes or none
NextPipeline ==
    \/ \E p \in DocsFiles, c \in Contents : CreateAlone(p, c)
    \/ \E p \in DocsFiles, c \in Contents : FsModify(p, c, TRUE)
    \/ \E p \in DocsFiles : FsDelete(p, TRUE)
    \/ \E p \in DocsFiles : _process_debounced_event(p)
    \/ \E w \in {1} : process_queue(w)
    \/ \E w \in {1}, ok \in BOOLEAN : ProcessFileStart(w, ok)
    \/ \E w \in {1}, qok \in BOOLEAN, pok \in BOOLEAN :
          ProcessFileIndexAndTrigger(w, qok, pok)
    \/ \E rendered \in {{}, THUMBNAIL_SIZES} : thumbnail_process_queue(rendered)
    \/ Expiry

SpecPipeline == Init /\ [][NextPipeline]_vars

\* C35: a message is pushed to thumbnail_generation_queue exactly in the
\* steps in which an extractor returns from a successful index step of a
\* created or modified message for an image or video file.
C35_PushExactlyOnIndexedMedia ==
    [][Len(thumbnail_generation_queue') > Len(thumbnail_generation_queue)
          <=> \E w \in Workers, qok \in BOOLEAN, pok \in BOOLEAN :
                 /\ ProcessFileIndexAndTrigger(w, qok, pok)
                 /\ msg[w].event_type \in CreatedOrModified
                 /\ IndexSucceeds(w, qok, pok)
                 /\ Suffix(msg[w].container_path)
                        \in IMAGE_FORMATS \cup VIDEO_FORMATS]_vars

\* the image and the text file are both indexed, and the newest message of
\* thumbnail_generation_queue is the image's
C35_Witness ==
    /\ thumbnail_generation_queue # << >>
    /\ thumbnail_generation_queue[1].container_path = FileB
    /\ Docs(_get_standardized_path(FileB)) # {}
    /\ Docs(_get_standardized_path(FileD)) # {}

\* ---------------------------------------------- the order of the work queue
\* C36: file_processing_queue changes only by a push at its left end, the
\* rest of the list staying as it is, or by a pop of its right end, which
\* hands the oldest message to exactly one idle worker: messages leave the
\* queue in the order they were pushed.
C36_QueueIsFifo ==
    [][\/ queue' = queue
       \/ Len(queue') = Len(queue) + 1 /\ Tail(queue') = queue
       \/ /\ queue # << >>
          /\ queue' = SubSeq(queue, 1, Len(queue) - 1)
          /\ \E w \in Workers :
                 /\ pc[w] = "idle"
                 /\ pc'[w] = "popped"
                 /\ msg'[w] = queue[Len(queue)]
                 /\ \A v \in Workers \ {w} :
                        pc'[v] = pc[v] /\ msg'[v] = msg[v]]_vars

\* a worker holds the older of two messages while the newer one waits
C36_Witness ==
    \E w \in Workers :
        /\ pc[w] = "popped"
        /\ queue # << >>
        /\ msg[w].modified_date < queue[Len(queue)].modified_date

\* -------------------------------------------------------- directory depth
\* the images of the volume mounted at /m/photos: one in the volume root,
\* one in a directory of it
PhotoFiles == {FileA, FileE}

\* The two images are created, rewritten and deleted; every notification is
\* delivered and Solr answers 200
NextDepth ==
    \/ \E p \in PhotoFiles, c \in Contents : FsCreate(p, c, TRUE)
    \/ \E p \in PhotoFiles, c \in Contents : FsModify(p, c, TRUE)
    \/ \E p \in PhotoFiles : FsDelete(p, TRUE)
    \/ \E p \in PhotoFiles : _process_debounced_event(p)
    \/ Extractor({1}, {TRUE})
    \/ Expiry

SpecDepth == Init /\ [][NextDepth]_vars

\* C37: the directory_depth of every message is the number of directories
\* between the volume root and the file, that is the segments of the logical
\* path but the volume and the file name: 0 for /m/photos/a.jpg, 1 for
\* /m/photos/a/b.jpg.
C37_DirectoryDepth ==
    \A i \in 1..Len(queue) :
        queue[i].directory_depth = Len(queue[i].file_path) - 2

\* ------------------------------------------------------------ lock ownership
\* C38: an enqueue attempt does not delete a lock it did not acquire: a
\* global_processing or queue_lock key of the file that is held when the
\* timer fires is still held when the attempt returns.
C38_LocksDeletedByOwner ==
    [][\A p \in Files :
          TimerFires(p) =>
              /\ p \in global_processing => p \in global_processing'
              /\ p \in queue_lock => p \in queue_lock']_vars

\* ------------------------------------------------ the content-address index
\* the path file_hash names for the contents of file q
HashOwner(q) == file_hash[_get_file_hash(q)]

\* C39: when the timer of a file fires with a created or modified event and
\* the event is dropped because file_hash:<h> names another path, that path
\* has a message in file_processing_queue or with an extractor, or a
\* document in the index.
C39_HashOwnerIsIndexed ==
    [][\A q \in Files :
          ( /\ TimerFires(q)
            /\ pending_events[q] \in CreatedOrModified
            /\ ~TooOld(q)
            /\ EnqueueOutcome(q, pending_events[q]) = "duplicate" )
          => \/ InFlight(_get_standardized_path(HashOwner(q)))
             \/ Docs(_get_standardized_path(HashOwner(q))) # {}]_vars

\* ------------------------------------------------------ orphaned thumbnails
\* C40: once the pipeline has come to rest (every timer has fired, both
\* queues are empty and the extractors are idle), no thumbnail file and no
\* thumbnails hash is left of a file that does not exist any more.
C40_NoOrphanedThumbnails ==
    ( /\ \A p \in Paths : timers[p] = 0 /\ pending_events[p] = "none"
      /\ queue = << >>
      /\ \A w \in Workers : pc[w] = "idle"
      /\ thumbnail_generation_queue = << >> ) =>
        \A p \in DocsFiles :
            ~Exists(p) =>
                /\ \A z \in THUMBNAIL_SIZES :
                       thumbnail_files[_get_standardized_path(p)][z] = NoImage
                /\ thumbnails[_get_standardized_path(p)] = NoThumbnails

====
